---------------------------- MODULE Spec2Model ----------------------------
(***************************************************************************)
(* Model of the command-orchestration layer of image-manager-cli:          *)
(*   - utils/file_ops.rs    get_unique_filename (collision renaming)       *)
(*   - utils/date_utils.rs  parse_date_string                              *)
(*   - utils/validation.rs  the validation gate                            *)
(*   - progress/mod.rs      the monitor thread                             *)
(*   - commands/organize.rs, commands/duplicates.rs, main.rs               *)
(*                                                                         *)
(* File names and date keys are sequences of one-character tokens, so that *)
(* std::path's file_stem / extension / with_extension and the date split   *)
(* are computed the way the library computes them.  An Option is a         *)
(* sequence of length 0 (None) or 1 (Some).                                *)
(***************************************************************************)
EXTENDS Integers, Sequences, FiniteSets, TLC

(***************************************************************************)
(* Bounds of the model.  MAX_FILENAME_ATTEMPTS (file_ops.rs:5, 1000 in the *)
(* program) and MAX_DISPLAY_ITEMS (progress/mod.rs:9, 10 in the program)   *)
(* are program constants taken small, so that the cases at the limit are   *)
(* reached.                                                                *)
(***************************************************************************)
MAX_FILENAME_ATTEMPTS == 4

MAX_DISPLAY_ITEMS == 2

MaxFiles == 2

MaxErrors == 3

MaxUpdates == 1

CounterCap == 3

None == <<>>

Some(x) == <<x>>

IsSome(o) == Len(o) = 1

Unwrap(o) == o[1]

Min2(a, b) == IF a < b THEN a ELSE b

Range(s) == {s[i] : i \in DOMAIN s}

(***************************************************************************)
(* std::path on file names.                                                *)
(***************************************************************************)
DOT == "."

\* index of the last '.' of a file name, 0 when there is none
LastDot(name) ==
    LET dots == {i \in DOMAIN name : name[i] = DOT}
    IN IF dots = {} THEN 0 ELSE CHOOSE i \in dots : \A j \in dots : j <= i

\* rsplit_file_at_dot: <<before, after>> as Options
RsplitFileAtDot(name) ==
    IF name = <<DOT, DOT>> THEN <<Some(name), None>>
    ELSE LET d == LastDot(name)
         IN IF d = 0 THEN <<None, Some(name)>>
            ELSE IF d = 1 THEN <<Some(name), None>>
            ELSE <<Some(SubSeq(name, 1, d - 1)), Some(SubSeq(name, d + 1, Len(name)))>>

\* Path::file_stem = before.or(after)
FileStem(name) ==
    LET s == RsplitFileAtDot(name)
    IN IF IsSome(s[1]) THEN Unwrap(s[1]) ELSE Unwrap(s[2])

\* Path::extension = before.and(after)
Extension(name) ==
    LET s == RsplitFileAtDot(name)
    IN IF IsSome(s[1]) THEN s[2] ELSE None

\* Path::with_extension: truncate to the file stem, then push "." and the
\* extension when it is not empty
WithExtension(name, ext) ==
    IF ext = <<>> THEN FileStem(name) ELSE FileStem(name) \o <<DOT>> \o ext

\* Path::with_file_name on a path [dir, name]
WithFileName(path, fname) == [dir |-> path.dir, name |-> fname]

\* format!("{}_{}", stem, counter)
FormatStemCounter(stem, counter) == stem \o <<"_", ToString(counter)>>

\* Path::exists over the files of the target tree
Exists(files, path) == path \in files

Ok(v) == [ok |-> TRUE, val |-> v]

Err(e) == [ok |-> FALSE, err |-> e]

\* one new candidate of get_unique_filename's loop body (file_ops.rs:19-23)
NextCandidate(target, stem, extension, counter) ==
    LET new_path == WithFileName(target, FormatStemCounter(stem, counter))
    IN IF IsSome(extension)
       THEN WithFileName(new_path, WithExtension(new_path.name, Unwrap(extension)))
       ELSE new_path

\* the bound test after counter += 1 (file_ops.rs:26)
AttemptsExceeded(counter) == counter > MAX_FILENAME_ATTEMPTS

RECURSIVE UniqueLoop(_, _, _, _, _, _)
UniqueLoop(files, target, stem, extension, counter, new_path) ==
    IF ~Exists(files, new_path) THEN Ok(new_path)
    ELSE LET cand == NextCandidate(target, stem, extension, counter)
         IN IF AttemptsExceeded(counter + 1)
            THEN Err("too_many_files")
            ELSE UniqueLoop(files, target, stem, extension, counter + 1, cand)

GetUniqueFilename(files, target) ==
    UniqueLoop(files, target, FileStem(target.name), Extension(target.name), 1, target)


(***************************************************************************)
(* utils/date_utils.rs                                                     *)
(***************************************************************************)
IsDateSeparator(c) == c \in {"-", "/"}

\* str::split(['-', '/']): n separators give n + 1 parts, empty ones included
RECURSIVE SplitDate(_)
SplitDate(s) ==
    LET seps == {i \in DOMAIN s : IsDateSeparator(s[i])}
    IN IF seps = {} THEN <<s>>
       ELSE LET i == CHOOSE k \in seps : \A j \in seps : k <= j
            IN <<SubSeq(s, 1, i - 1)>> \o SplitDate(SubSeq(s, i + 1, Len(s)))

\* a parse that takes two parts for a date without a day
ParseDateString_TwoParts(date_str) ==
    LET parts == SplitDate(date_str)
    IN IF Len(parts) = 3 THEN Some(<<parts[1], parts[2], parts[3]>>)
       ELSE IF Len(parts) = 2 THEN Some(<<parts[1], parts[2], <<>>>>)
       ELSE None

ParseDateString(date_str) ==
    LET parts == SplitDate(date_str)
    IN IF Len(parts) = 3 THEN Some(<<parts[1], parts[2], parts[3]>>) ELSE None

\* PathBuf::join of one component below the target base; joining an empty
\* component names the same directory
JoinDir(dir, comp) == IF comp = <<>> THEN dir ELSE Append(dir, comp)

\* target_dir.join(year).join(month).join(day), relative to the target base
DateDir(ymd) == JoinDir(JoinDir(JoinDir(<<>>, ymd[1]), ymd[2]), ymd[3])

\* the directories fs::create_dir_all(dir) makes exist
DirAndParents(dir) == {SubSeq(dir, 1, n) : n \in 0..Len(dir)}

(***************************************************************************)
(* The values the model draws its inputs from.                             *)
(***************************************************************************)
KeyDash == <<"2023", "-", "05", "-", "01">>

KeySlash == <<"2023", "/", "05", "/", "01">>

KeyBad == <<"2023", "-", "05">>

DateKeys == {KeyDash, KeySlash, KeyBad}

\* target/2023/05/01, the directory of KeyDash and of KeySlash
Day1 == <<<<"2023">>, <<"05">>, <<"01">>>>

NameAT == <<"a", DOT, "t">>

NameABT == <<"a", DOT, "b", DOT, "t">>

NameA == <<"a">>

NameHidden == <<DOT, "a">>

NameHiddenT == <<DOT, "a", DOT, "t">>

\* S_k.E as the collision policy describes it: the suffix goes on the stem,
\* in front of the extension
SuffixedName(name, k) ==
    LET st == FileStem(name)
        ex == Extension(name)
    IN IF IsSome(ex) THEN FormatStemCounter(st, k) \o <<DOT>> \o Unwrap(ex)
       ELSE FormatStemCounter(st, k)

InDay1(name) == [dir |-> Day1, name |-> name]

\* sequences over S of length at most n
SeqsUpTo(S, n) == UNION {[1..k -> S] : k \in 0..n}

(***************************************************************************)
(* State.                                                                  *)
(***************************************************************************)
VARIABLES
    cmd,                \* "organize" | "duplicates" | "none"
    args,               \* OrganizeArgs / DuplicatesArgs
    pc,                 \* position of the primary flow (main, run, handle_*)
    result,             \* "none" | "ok" | "err": what handle_* returned
    failCause,          \* which statement produced the Err
    exitCode,           \* -1 while the process runs
    out,                \* what the primary flow has printed, in order
    handle,             \* the shared ProgressHandle
    monPc,              \* position of the monitor thread
    monInfo,            \* the monitor's last get_progress() snapshot
    monHist,            \* history of the monitor's renders
    engineUpdates,      \* progress updates the engine has written
    engineInvoked,      \* history: the engine call was made
    monitorStarted,     \* history: start_progress_monitoring was called
    organized_images,   \* the organize result map: date key -> files
    duplicate_groups,   \* the duplicates result: groups of files
    errors,             \* the per-item errors returned by the engine
    similarity_threshold, \* config.similarity_threshold of duplicates, an Option
    final_organized_images,
    exportFile,         \* None, or Some(document) once the export is written
    fsFiles,            \* files of the target tree: [dir, name]
    fsDirs,             \* directories of the target tree, <<>> is the base
    preFiles,           \* fsFiles when the process started
    preDirs,            \* fsDirs when the process started
    copyPc,             \* position inside copy_files_to_target
    remaining,          \* date keys the for loop has not visited yet
    curKey,             \* the date key being copied
    fileIdx,            \* index of the next file of curKey
    files_for_date,
    copied_files,
    copy_errors,
    attemptLog,         \* history: one record per file the loop handled
    overwritten,        \* history: destinations that existed when copied to
    uTarget,            \* get_unique_filename exercised alone: its argument
    uResult             \*   and the result of the last call, an Option

orchVars == <<cmd, args, pc, result, failCause, exitCode, out>>

monVars == <<handle, monPc, monInfo, monHist>>

engineVars == <<engineUpdates, engineInvoked, monitorStarted, organized_images,
                duplicate_groups, errors, similarity_threshold>>

resultVars == <<final_organized_images, exportFile>>

fsVars == <<fsFiles, fsDirs, preFiles, preDirs>>

copyVars == <<copyPc, remaining, curKey, fileIdx, files_for_date, copied_files,
              copy_errors, attemptLog, overwritten>>

uVars == <<uTarget, uResult>>

vars == <<orchVars, monVars, engineVars, resultVars, fsVars, copyVars, uVars>>

\* the primary flow, the monitor and the copy loop are not running
OrchIdle ==
    /\ cmd = "none"
    /\ args = [directory |-> "src", target_path |-> None, copy |-> FALSE,
               export |-> None, threshold |-> None, sensitivity |-> None]
    /\ pc = "idle"
    /\ result = "none"
    /\ failCause = "none"
    /\ exitCode = -1
    /\ out = <<>>
    /\ handle = [phase |-> "Initializing", percentage |-> None,
                 current_file |-> None, complete |-> FALSE]
    /\ monPc = "none"
    /\ monInfo = None
    /\ monHist = [rendersAfterComplete |-> 0, sleepsAfterComplete |-> 0,
                  finalRenders |-> 0,
                  statusAfterFinal |-> FALSE, interleaved |-> FALSE]
    /\ engineUpdates = 0
    /\ engineInvoked = FALSE
    /\ monitorStarted = FALSE
    /\ duplicate_groups = <<>>
    /\ errors = <<>>
    /\ similarity_threshold = None
    /\ final_organized_images = None
    /\ exportFile = None

CopyIdle ==
    /\ copyPc = "idle"
    /\ remaining = {}
    /\ curKey = None
    /\ fileIdx = 0
    /\ files_for_date = <<>>
    /\ copied_files = <<>>
    /\ copy_errors = <<>>
    /\ attemptLog = <<>>
    /\ overwritten = {}


(***************************************************************************)
(* The paths the command line may name.  "src" and "tgt" are directories,  *)
(* "src_link" is a symbolic link to "src", "afile" is a regular file,      *)
(* "newdir" and "nowhere" do not exist.                                    *)
(***************************************************************************)
Paths == {"src", "src_link", "tgt", "newdir", "afile", "nowhere"}

PathKind(p) ==
    CASE p \in {"src", "src_link", "tgt"} -> "dir"
      [] p = "afile" -> "file"
      [] OTHER -> "missing"

\* Path::exists and Path::is_dir follow symbolic links
PathExists(p) == PathKind(p) # "missing"

PathIsDir(p) == PathKind(p) = "dir"

\* Path::canonicalize: an error for a path that does not exist
Canonicalize(p) ==
    IF ~PathExists(p) THEN Err("not_found")
    ELSE IF p = "src_link" THEN Ok("src") ELSE Ok(p)

(***************************************************************************)
(* Maps (HashMap<String, Vec<PathBuf>>) are functions on a set of keys.    *)
(***************************************************************************)
EmptyMap == <<>>

Insert(m, k, v) == [x \in (DOMAIN m) \cup {k} |-> IF x = k THEN v ELSE m[x]]

RECURSIVE SumLen(_, _)
SumLen(m, keys) ==
    IF keys = {} THEN 0
    ELSE LET k == CHOOSE x \in keys : TRUE
         IN Len(m[k]) + SumLen(m, keys \ {k})

\* organized_images.len(): the number of dates
TotalFiles_CountsKeys(m) == Cardinality(DOMAIN m)

\* organized_images.values().map(|v| v.len()).sum()
TotalFiles(m) == SumLen(m, DOMAIN m)

\* take that stops one short
Take_OneShort(s, n) == SubSeq(s, 1, Min2(Len(s), n - 1))

\* errors.iter().take(n)
Take(s, n) == SubSeq(s, 1, Min2(Len(s), n))

\* display_errors (organize.rs:250-267, duplicates.rs:115-132): nothing for
\* an empty list, else the first MAX_DISPLAY_ITEMS errors and the number of
\* errors the "... and N more errors" line reports (0: no such line)
DisplayErrors(errs, error_type) ==
    IF errs = <<>> THEN <<>>
    ELSE <<[ev |-> "errors", type |-> error_type,
            shown |-> Take(errs, MAX_DISPLAY_ITEMS),
            more |-> IF Len(errs) > MAX_DISPLAY_ITEMS
                     THEN Len(errs) - MAX_DISPLAY_ITEMS ELSE 0]>>

Event(e) == [ev |-> e]

(***************************************************************************)
(* copy_files_to_target (organize.rs:159-248), one action per loop step.   *)
(***************************************************************************)
\* date_dir.join(file.file_name())
TargetFile(date_dir, fname) == [dir |-> date_dir, name |-> fname]

\* FinalTargetFile without the existence check
FinalTargetFile_Unchecked(files, target_file) == Ok(target_file)

\* organize.rs:205-219: the existence check, and the unique name behind it
FinalTargetFile(files, target_file) ==
    IF Exists(files, target_file)
    THEN GetUniqueFilename(files, target_file)
    ELSE Ok(target_file)

\* organize.rs:163-175: the early return for no files, else the target
\* directory is created; creating it fails when the path is a regular file
\* and may fail for any path that is not a directory yet
CopyStart ==
    /\ pc = "copy"
    /\ copyPc = "start"
    /\ IF TotalFiles(organized_images) = 0
       THEN /\ final_organized_images' = Some(EmptyMap)
            /\ pc' = "display"
            /\ copyPc' = "returned"
            /\ UNCHANGED <<result, failCause, fsDirs, remaining>>
       ELSE \E created \in BOOLEAN :
            /\ created => PathKind(Unwrap(args.target_path)) # "file"
            /\ ~created => <<>> \notin fsDirs
            /\ IF created
               THEN /\ fsDirs' = fsDirs \cup {<<>>}
                    /\ remaining' = DOMAIN organized_images
                    /\ copyPc' = "next_bucket"
                    /\ UNCHANGED <<pc, result, failCause, final_organized_images>>
               ELSE /\ result' = "err"
                    /\ failCause' = "target_dir"
                    /\ pc' = "main_err"
                    /\ copyPc' = "returned"
                    /\ UNCHANGED <<fsDirs, remaining, final_organized_images>>
    /\ UNCHANGED <<cmd, args, exitCode, out, monVars, engineVars, exportFile,
                   fsFiles, preFiles, preDirs, curKey, fileIdx, files_for_date,
                   copied_files, copy_errors, attemptLog, overwritten, uVars>>

\* organize.rs:183-195 and 238: the next (date, files) of the map, in the
\* HashMap's arbitrary order.  A key that does not parse gets an empty list;
\* a date directory that cannot be created is an error and the key is left
\* out (continue); creating a directory that exists succeeds
CopyNextBucket ==
    /\ pc = "copy"
    /\ copyPc = "next_bucket"
    /\ \E date \in remaining :
        /\ remaining' = remaining \ {date}
        /\ LET parsed == ParseDateString(date)
           IN IF ~IsSome(parsed)
              THEN /\ copied_files' = Insert(copied_files, date, <<>>)
                   /\ UNCHANGED <<fsDirs, copyPc, curKey, fileIdx, files_for_date,
                                  copy_errors>>
              ELSE LET date_dir == DateDir(Unwrap(parsed))
                   IN \E created \in BOOLEAN :
                       /\ ~created => date_dir \notin fsDirs
                       /\ IF created
                          THEN /\ fsDirs' = fsDirs \cup DirAndParents(date_dir)
                               /\ curKey' = Some(date)
                               /\ fileIdx' = 1
                               /\ files_for_date' = <<>>
                               /\ copyPc' = "file"
                               /\ UNCHANGED <<copied_files, copy_errors>>
                          ELSE /\ copy_errors' = Append(copy_errors,
                                      [kind |-> "mkdir", key |-> date, idx |-> 0])
                               /\ UNCHANGED <<fsDirs, copyPc, curKey, fileIdx,
                                              files_for_date, copied_files>>
    /\ UNCHANGED <<orchVars, monVars, engineVars, resultVars, fsFiles, preFiles,
                   preDirs, attemptLog, overwritten, uVars>>

\* what fs::copy leaves at its destination: the file when it succeeds,
\* nothing when it fails before the destination is opened, a partial file
\* when it fails later
CopyOutcomes == {"copied", "failed", "failed_partial"}

\* CopyErrorsAfter that records copy failures only
CopyErrorsAfter_CopyOnly(errs, date, idx, outcome) ==
    IF outcome \in {"failed", "failed_partial"}
    THEN Append(errs, [kind |-> "copy", key |-> date, idx |-> idx])
    ELSE errs

\* organize.rs:206-216 and 221-234: the error a file leaves in copy_errors
CopyErrorsAfter(errs, date, idx, outcome) ==
    CASE outcome = "name_failed" ->
            Append(errs, [kind |-> "unique", key |-> date, idx |-> idx])
      [] outcome \in {"failed", "failed_partial"} ->
            Append(errs, [kind |-> "copy", key |-> date, idx |-> idx])
      [] OTHER -> errs

\* FilesForDateAfter that pushes the path of a failed copy too
FilesForDateAfter_AnyCopy(files, outcome, final_target_file) ==
    IF outcome # "name_failed" THEN Append(files, final_target_file.val) ELSE files

\* organize.rs:221-224: only a successful copy is pushed, with the path it
\* was written to
FilesForDateAfter(files, outcome, final_target_file) ==
    IF outcome = "copied" THEN Append(files, final_target_file.val) ELSE files

\* organize.rs:197-235: one file of the current bucket
CopyFile ==
    /\ pc = "copy"
    /\ copyPc = "file"
    /\ fileIdx <= Len(organized_images[Unwrap(curKey)])
    /\ LET date == Unwrap(curKey)
           file == organized_images[date][fileIdx]
           date_dir == DateDir(Unwrap(ParseDateString(date)))
           target_file == TargetFile(date_dir, file)
           final == FinalTargetFile(fsFiles, target_file)
       IN \E outcome \in (IF final.ok THEN CopyOutcomes ELSE {"name_failed"}) :
           /\ attemptLog' = Append(attemptLog,
                  [key |-> date, idx |-> fileIdx, outcome |-> outcome,
                   dest |-> IF final.ok THEN Some(final.val) ELSE None])
           /\ overwritten' = overwritten \cup
                  (IF final.ok /\ final.val \in fsFiles THEN {final.val} ELSE {})
           /\ fsFiles' = IF outcome \in {"copied", "failed_partial"}
                         THEN fsFiles \cup {final.val} ELSE fsFiles
           /\ files_for_date' = FilesForDateAfter(files_for_date, outcome, final)
           /\ copy_errors' = CopyErrorsAfter(copy_errors, date, fileIdx, outcome)
    /\ fileIdx' = fileIdx + 1
    /\ UNCHANGED <<orchVars, monVars, engineVars, resultVars, fsDirs, preFiles,
                   preDirs, copyPc, remaining, curKey, copied_files, uVars>>

\* organize.rs:238: the bucket's files are done
CopyEndBucket ==
    /\ pc = "copy"
    /\ copyPc = "file"
    /\ fileIdx > Len(organized_images[Unwrap(curKey)])
    /\ copied_files' = Insert(copied_files, Unwrap(curKey), files_for_date)
    /\ curKey' = None
    /\ files_for_date' = <<>>
    /\ copyPc' = "next_bucket"
    /\ UNCHANGED <<orchVars, monVars, engineVars, resultVars, fsVars, remaining,
                   fileIdx, copy_errors, attemptLog, overwritten, uVars>>

\* organize.rs:241-247 and 94: the errors are displayed and the map returned
CopyFinish ==
    /\ pc = "copy"
    /\ copyPc = "next_bucket"
    /\ remaining = {}
    /\ out' = out \o DisplayErrors(copy_errors, "Copy Errors")
    /\ final_organized_images' = Some(copied_files)
    /\ copyPc' = "returned"
    /\ pc' = "display"
    /\ UNCHANGED <<cmd, args, result, failCause, exitCode, monVars, engineVars,
                   exportFile, fsVars, remaining, curKey, fileIdx, files_for_date,
                   copied_files, copy_errors, attemptLog, overwritten, uVars>>

(***************************************************************************)
(* utils/validation.rs.  Thresholds are tenths: 0.0 is 0 and 1.0 is 10.    *)
(***************************************************************************)
Unit == Ok("unit")

\* validate_directory without the test of is_dir()
ValidateDirectory_ExistsOnly(path) ==
    IF ~PathExists(path) THEN Err("does_not_exist") ELSE Unit

ValidateDirectory(path) ==
    IF ~PathExists(path) THEN Err("does_not_exist")
    ELSE IF ~PathIsDir(path) THEN Err("not_a_directory")
    ELSE Unit

\* the path as it was given, links not followed
CanonicalOrSelf_AsGiven(path) == path

\* canonicalize().unwrap_or_else(|_| path.to_path_buf())
CanonicalOrSelf(path) ==
    IF Canonicalize(path).ok THEN Canonicalize(path).val ELSE path

ValidateDifferentDirectories(source, target) ==
    IF CanonicalOrSelf(source) = CanonicalOrSelf(target)
    THEN Err("same_directory")
    ELSE Unit

\* validate_organize_args without the test of --copy
ValidateOrganizeArgs_NoCopyTest(a) ==
    IF ~ValidateDirectory(a.directory).ok THEN ValidateDirectory(a.directory)
    ELSE IF /\ IsSome(a.target_path)
            /\ PathExists(Unwrap(a.target_path))
            /\ PathIsDir(Unwrap(a.target_path))
            /\ ~ValidateDifferentDirectories(a.directory, Unwrap(a.target_path)).ok
         THEN ValidateDifferentDirectories(a.directory, Unwrap(a.target_path))
    ELSE Unit

ValidateOrganizeArgs(a) ==
    IF ~ValidateDirectory(a.directory).ok THEN ValidateDirectory(a.directory)
    ELSE IF /\ IsSome(a.target_path)
            /\ PathExists(Unwrap(a.target_path))
            /\ PathIsDir(Unwrap(a.target_path))
            /\ ~ValidateDifferentDirectories(a.directory, Unwrap(a.target_path)).ok
         THEN ValidateDifferentDirectories(a.directory, Unwrap(a.target_path))
    ELSE IF a.copy /\ ~IsSome(a.target_path) THEN Err("copy_requires_target_path")
    ELSE Unit

\* a range without its upper end: (0.0..1.0).contains(&threshold)
ValidateSimilarityThreshold_HalfOpen(threshold) ==
    IF ~(0 <= threshold /\ threshold < 10) THEN Err("threshold_out_of_range")
    ELSE Unit

\* (0.0..=1.0).contains(&threshold)
ValidateSimilarityThreshold(threshold) ==
    IF ~(0 <= threshold /\ threshold <= 10) THEN Err("threshold_out_of_range")
    ELSE Unit

\* validate_duplicates_args without the test of --threshold
ValidateDuplicatesArgs_NoThresholdTest(a) == ValidateDirectory(a.directory)

ValidateDuplicatesArgs(a) ==
    IF ~ValidateDirectory(a.directory).ok THEN ValidateDirectory(a.directory)
    ELSE IF IsSome(a.threshold) THEN ValidateSimilarityThreshold(Unwrap(a.threshold))
    ELSE Unit

(***************************************************************************)
(* commands/args.rs.  SimilarityThreshold is the engine library's type:    *)
(* its presets are kept symbolic, and new() takes the documented range.    *)
(***************************************************************************)
SimilarityThresholdNew(t) ==
    IF 0 <= t /\ t <= 10 THEN Ok([kind |-> "custom", value |-> t])
    ELSE Err("invalid_threshold")

Preset(level) == [kind |-> "preset", value |-> level]

\* get_similarity_threshold that looks at --threshold first
GetSimilarityThreshold_ThresholdFirst(a) ==
    IF IsSome(a.threshold) THEN SimilarityThresholdNew(Unwrap(a.threshold))
    ELSE IF IsSome(a.sensitivity) THEN Ok(Preset(Unwrap(a.sensitivity)))
    ELSE Ok(Preset("medium"))

GetSimilarityThreshold(a) ==
    IF IsSome(a.sensitivity) THEN Ok(Preset(Unwrap(a.sensitivity)))
    ELSE IF IsSome(a.threshold) THEN SimilarityThresholdNew(Unwrap(a.threshold))
    ELSE Ok(Preset("medium"))

(***************************************************************************)
(* output/formats.rs: what the previews print.                             *)
(***************************************************************************)
\* print_errors (formats.rs:112-133), with the literal limit of 10 taken as
\* MAX_DISPLAY_ITEMS
PrintErrors(errs) == DisplayErrors(errs, "Processing Errors")

PrintOrganizePreview(images, errs) ==
    IF DOMAIN images = {} /\ errs = <<>>
    THEN <<Event("no_images")>>
    ELSE <<[ev |-> "preview", items |-> TotalFiles(images)]>> \o PrintErrors(errs)

RECURSIVE SumGroups(_)
SumGroups(groups) ==
    IF groups = <<>> THEN 0 ELSE Len(Head(groups)) + SumGroups(Tail(groups))

PrintDuplicatesPreview(groups, errs) ==
    IF groups = <<>> /\ errs = <<>>
    THEN <<Event("no_duplicates")>>
    ELSE <<[ev |-> "preview", items |-> SumGroups(groups)]>> \o PrintErrors(errs)

(***************************************************************************)
(* The primary flow: main, run, handle_organize, handle_duplicates.        *)
(***************************************************************************)
\* an Err that is recorded but not returned: the function goes on
ReturnErr_GoesOn(cause) ==
    /\ result' = "err"
    /\ failCause' = cause
    /\ pc' = IF cause = "engine" THEN "join" ELSE "main_err"

\* returning Err(..) from handle_*: run and main take over
ReturnErr(cause) ==
    /\ result' = "err"
    /\ failCause' = cause
    /\ pc' = "main_err"

\* organize.rs:16-17
OrganizeValidate ==
    /\ cmd = "organize"
    /\ pc = "validate"
    /\ IF ValidateOrganizeArgs(args).ok
       THEN pc' = "spawn" /\ UNCHANGED <<result, failCause>>
       ELSE ReturnErr("validation")
    /\ UNCHANGED <<cmd, args, exitCode, out, monVars, engineVars, resultVars,
                   fsVars, copyVars, uVars>>

\* duplicates.rs:12-13
DuplicatesValidate ==
    /\ cmd = "duplicates"
    /\ pc = "validate"
    /\ IF ValidateDuplicatesArgs(args).ok
       THEN pc' = "threshold" /\ UNCHANGED <<result, failCause>>
       ELSE ReturnErr("validation")
    /\ UNCHANGED <<cmd, args, exitCode, out, monVars, engineVars, resultVars,
                   fsVars, copyVars, uVars>>

\* duplicates.rs:18-25: the threshold of the configuration
DuplicatesThreshold ==
    /\ cmd = "duplicates"
    /\ pc = "threshold"
    /\ IF GetSimilarityThreshold(args).ok
       THEN /\ similarity_threshold' = Some(GetSimilarityThreshold(args).val)
            /\ pc' = "spawn"
            /\ UNCHANGED <<result, failCause>>
       ELSE /\ ReturnErr("threshold")
            /\ UNCHANGED similarity_threshold
    /\ UNCHANGED <<cmd, args, exitCode, out, monVars, engineUpdates, engineInvoked,
                   monitorStarted, organized_images, duplicate_groups, errors,
                   resultVars, fsVars, copyVars, uVars>>

\* ProgressHandle::new()
NewHandle == [phase |-> "Initializing", percentage |-> None,
              current_file |-> None, complete |-> FALSE]

\* organize.rs:35-38, duplicates.rs:32-36, progress/mod.rs:45-53: the handle
\* is created and the monitor thread spawned
StartProgressMonitoring ==
    /\ pc = "spawn"
    /\ handle' = NewHandle
    /\ monPc' = "check"
    /\ monitorStarted' = TRUE
    /\ pc' = "invoke"
    /\ UNCHANGED <<cmd, args, result, failCause, exitCode, out, monInfo, monHist,
                   engineUpdates, engineInvoked, organized_images, duplicate_groups,
                   errors, similarity_threshold, resultVars, fsVars, copyVars, uVars>>

(***************************************************************************)
(* The engine call (organize.rs:40-48, duplicates.rs:38-41).  The engine   *)
(* is the library's: it runs in the primary flow, may write the handle any *)
(* number of times, may mark it complete, and returns Ok with a result and *)
(* per-item errors, or Err.                                                *)
(***************************************************************************)
ProgressSnapshots ==
    {[phase |-> "Scanning", percentage |-> None, current_file |-> None],
     [phase |-> "Organizing", percentage |-> Some(50), current_file |-> Some("f")]}

EngineOrganizeResults ==
    {EmptyMap,
     [k \in {KeyDash} |-> <<NameAT>>],
     [k \in {KeyDash, KeyBad} |-> IF k = KeyDash THEN <<NameAT, NameAT>> ELSE <<NameAT>>],
     [k \in {KeyDash, KeySlash} |-> IF k = KeyDash THEN <<NameABT>> ELSE <<NameAT>>]}

EngineDuplicateResults ==
    {<<>>, <<<<NameAT, NameABT>>>>, <<<<NameAT, NameABT>>, <<NameA, NameHidden, NameHiddenT>>>>}

\* the per-item error lists: none, one, as many as are displayed, MaxErrors
ErrorList(n) == [i \in 1..n |-> i]

EngineErrorLists ==
    {ErrorList(0), ErrorList(1), ErrorList(MAX_DISPLAY_ITEMS), ErrorList(MaxErrors)}

EngineInvoke ==
    /\ pc = "invoke"
    /\ engineInvoked' = TRUE
    /\ pc' = "engine"
    /\ UNCHANGED <<cmd, args, result, failCause, exitCode, out, monVars,
                   engineUpdates, monitorStarted, organized_images, duplicate_groups,
                   errors, similarity_threshold, resultVars, fsVars, copyVars, uVars>>

EngineUpdate ==
    /\ pc = "engine"
    /\ engineUpdates < MaxUpdates
    /\ engineUpdates' = engineUpdates + 1
    /\ \E snap \in ProgressSnapshots :
          handle' = [handle EXCEPT !.phase = snap.phase,
                                   !.percentage = snap.percentage,
                                   !.current_file = snap.current_file]
    /\ UNCHANGED <<orchVars, monPc, monInfo, monHist, engineInvoked, monitorStarted,
                   organized_images, duplicate_groups, errors, similarity_threshold,
                   resultVars, fsVars, copyVars, uVars>>

EngineMarkComplete ==
    /\ pc = "engine"
    /\ ~handle.complete
    /\ handle' = [handle EXCEPT !.complete = TRUE]
    /\ UNCHANGED <<orchVars, monPc, monInfo, monHist, engineVars, resultVars,
                   fsVars, copyVars, uVars>>

\* the call returns: `?` passes an Err on to run and main
EngineReturn ==
    /\ pc = "engine"
    /\ \/ /\ IF cmd = "organize"
             THEN /\ organized_images' \in EngineOrganizeResults
                  /\ UNCHANGED duplicate_groups
             ELSE /\ duplicate_groups' \in EngineDuplicateResults
                  /\ UNCHANGED organized_images
          /\ errors' \in EngineErrorLists
          /\ pc' = "join"
          /\ UNCHANGED <<result, failCause>>
       \/ /\ ReturnErr("engine")
          /\ UNCHANGED <<organized_images, duplicate_groups, errors>>
    /\ UNCHANGED <<cmd, args, exitCode, out, monVars, engineUpdates, engineInvoked,
                   monitorStarted, similarity_threshold, resultVars, fsVars,
                   copyVars, uVars>>

\* a join that does not wait for the thread
JoinReturns_WithoutWaiting == monPc # "none"

\* JoinHandle::join returns once the thread has terminated
JoinReturns == monPc = "exited"

\* organize.rs:50, duplicates.rs:43
Join ==
    /\ pc = "join"
    /\ JoinReturns
    /\ pc' = "completed"
    /\ UNCHANGED <<cmd, args, result, failCause, exitCode, out, monVars, engineVars,
                   resultVars, fsVars, copyVars, uVars>>

\* the primary flow has left the join behind
AfterJoin ==
    \/ pc \in {"completed", "export", "copy", "display", "dup_preview",
               "dup_export", "dup_errors", "main_ok"}
    \/ pc \in {"main_err", "exit", "done"} /\ failCause \notin {"none", "validation",
                                                                "threshold", "engine"}
    \/ pc = "done" /\ result = "ok"

(***************************************************************************)
(* The monitor thread (progress/mod.rs:53-68).                             *)
(***************************************************************************)
Bump(n) == Min2(n + 1, CounterCap)

MonitorRuns == exitCode = -1

\* a monitor that tests a copy of the handle made when it was spawned
MonCheck_OwnCopy ==
    /\ MonitorRuns
    /\ monPc = "check"
    /\ monPc' = IF NewHandle.complete THEN "final" ELSE "read"
    /\ UNCHANGED <<orchVars, handle, monInfo, monHist, engineVars, resultVars,
                   fsVars, copyVars, uVars>>

\* while !progress_handle.is_complete()
MonCheck ==
    /\ MonitorRuns
    /\ monPc = "check"
    /\ monPc' = IF handle.complete THEN "final" ELSE "read"
    /\ UNCHANGED <<orchVars, handle, monInfo, monHist, engineVars, resultVars,
                   fsVars, copyVars, uVars>>

\* a read that takes the current item out of the handle
MonRead_Takes ==
    /\ MonitorRuns
    /\ monPc = "read"
    /\ monInfo' = Some([phase |-> handle.phase, percentage |-> handle.percentage,
                        current_file |-> handle.current_file])
    /\ handle' = [handle EXCEPT !.current_file = None]
    /\ monPc' = "render"
    /\ UNCHANGED <<orchVars, monHist, engineVars, resultVars, fsVars,
                   copyVars, uVars>>

\* let info = progress_handle.get_progress()
MonRead ==
    /\ MonitorRuns
    /\ monPc = "read"
    /\ monInfo' = Some([phase |-> handle.phase, percentage |-> handle.percentage,
                        current_file |-> handle.current_file])
    /\ monPc' = "render"
    /\ UNCHANGED <<orchVars, handle, monHist, engineVars, resultVars, fsVars,
                   copyVars, uVars>>

\* spinner.set_message(..): one status line
MonRender ==
    /\ MonitorRuns
    /\ monPc = "render"
    /\ monHist' = [monHist EXCEPT
          !.rendersAfterComplete = IF handle.complete THEN Bump(@) ELSE @,
          !.statusAfterFinal = @ \/ monHist.finalRenders > 0,
          !.interleaved = @ \/ AfterJoin]
    /\ monPc' = "sleep"
    /\ UNCHANGED <<orchVars, handle, monInfo, engineVars, resultVars, fsVars,
                   copyVars, uVars>>

\* a loop that goes on with the next status line without testing the flag
AfterSleep_NoTest == "read"

\* progress/mod.rs:54 and 66: after the sleep the while condition is tested
AfterSleep == "check"

\* std::thread::sleep(DEFAULT_PROGRESS_INTERVAL)
MonSleep ==
    /\ MonitorRuns
    /\ monPc = "sleep"
    /\ monHist' = [monHist EXCEPT
          !.sleepsAfterComplete = IF handle.complete THEN Bump(@) ELSE @]
    /\ monPc' = AfterSleep
    /\ UNCHANGED <<orchVars, handle, monInfo, engineVars, resultVars, fsVars,
                   copyVars, uVars>>

\* spinner.finish_with_message("Operation completed"); the thread ends
MonFinal ==
    /\ MonitorRuns
    /\ monPc = "final"
    /\ monHist' = [monHist EXCEPT !.finalRenders = Bump(@),
                                  !.interleaved = @ \/ AfterJoin]
    /\ monPc' = "exited"
    /\ UNCHANGED <<orchVars, handle, monInfo, engineVars, resultVars, fsVars,
                   copyVars, uVars>>

(***************************************************************************)
(* export/data.rs: the export document.  The timestamp, the version and    *)
(* the sizes fs::metadata reports are not part of the model.               *)
(***************************************************************************)
RECURSIVE Flatten(_)
Flatten(seqs) == IF seqs = <<>> THEN <<>> ELSE Head(seqs) \o Flatten(Tail(seqs))

\* extension().and_then(|e| e.to_str()).unwrap_or("")
ExtensionOrEmpty(name) == IF IsSome(Extension(name)) THEN Unwrap(Extension(name)) ELSE <<>>

\* the orders in which `for (date, files) in &organized_files` may visit
\* the keys of a HashMap
KeyOrders(m) ==
    {o \in [1..Cardinality(DOMAIN m) -> DOMAIN m] :
        \A i, j \in DOMAIN o : o[i] = o[j] => i = j}

\* data.rs:93-105: format!("{}/{}/{}", dir_name, date, file_name)
OrganizeTargetPath(target_config, source_directory, date, file_name) ==
    IF IsSome(target_config.base_path)
    THEN <<Unwrap(target_config.base_path), date, file_name>>
    ELSE <<source_directory, date, file_name>>

\* data.rs:78-115: the records of one date
OrganizeRecordsOf(date, files, target_config, source_directory) ==
    [i \in DOMAIN files |->
        [original_path |-> files[i],
         target_path |-> OrganizeTargetPath(target_config, source_directory,
                                            date, files[i]),
         date_directory |-> date,
         file_name |-> files[i],
         file_extension |-> ExtensionOrEmpty(files[i])]]

\* ExportData::organize, the keys visited in the order `order`
ExportDataOrganize(organized_files, order, target_config, source_directory, total_processed) ==
    [metadata |-> [command |-> "organize",
                   source_directory |-> source_directory,
                   total_processed |-> total_processed,
                   command_metadata |->
                       [target_path |-> target_config.base_path]],
     data |-> [type |-> "Organize",
               file_records |->
                   Flatten([k \in DOMAIN order |->
                       OrganizeRecordsOf(order[k], organized_files[order[k]],
                                         target_config, source_directory)]),
               target_config |-> target_config]]

\* group_id: format!("group_{}", index + 1), index counted from 0
GroupId(index) == <<"group_", ToString(index + 1)>>

\* duplicates.rs:80-88
ExportDuplicateGroups(groups, similarity) ==
    [g \in DOMAIN groups |->
        [group_id |-> GroupId(g - 1), files |-> groups[g], similarity |-> similarity]]

\* records whose position is the index of enumerate() as it is
DuplicateRecordsOf_FromZero(group) ==
    [p \in DOMAIN group.files |->
        [file_path |-> group.files[p],
         group_id |-> group.group_id,
         position_in_group |-> p - 1,
         group_size |-> Len(group.files),
         similarity |-> group.similarity,
         file_extension |-> ExtensionOrEmpty(group.files[p])]]

\* data.rs:151-169: the records of one group; enumerate() counts from 0
DuplicateRecordsOf(group) ==
    [p \in DOMAIN group.files |->
        [file_path |-> group.files[p],
         group_id |-> group.group_id,
         position_in_group |-> (p - 1) + 1,
         group_size |-> Len(group.files),
         similarity |-> group.similarity,
         file_extension |-> ExtensionOrEmpty(group.files[p])]]

\* ExportData::duplicates
ExportDataDuplicates(export_groups, threshold, source_directory, total_processed) ==
    [metadata |-> [command |-> "duplicates",
                   source_directory |-> source_directory,
                   total_processed |-> total_processed,
                   command_metadata |->
                       [similarity_threshold |-> threshold,
                        duplicate_groups_count |-> Len(export_groups)]],
     data |-> [type |-> "Duplicates",
               file_records |->
                   Flatten([g \in DOMAIN export_groups |->
                               DuplicateRecordsOf(export_groups[g])]),
               similarity_threshold |-> threshold]]

(***************************************************************************)
(* After the join.                                                         *)
(***************************************************************************)
\* what File::create and the writes leave at the export path
ExportOutcomes == {"written", "failed", "failed_partial"}

ExportFileAfter(outcome, doc) ==
    CASE outcome = "written" -> Some([complete |-> TRUE, doc |-> doc])
      [] outcome = "failed_partial" -> Some([complete |-> FALSE, doc |-> doc])
      [] OTHER -> None

\* organize.rs:52-66: the completion line, and the early return when there
\* is nothing to show
OrganizeCompleted ==
    /\ cmd = "organize"
    /\ pc = "completed"
    /\ IF DOMAIN organized_images = {} /\ errors = <<>>
       THEN /\ out' = out \o <<Event("completed"), Event("no_images")>>
            /\ result' = "ok"
            /\ pc' = "main_ok"
       ELSE /\ out' = Append(out, Event("completed"))
            /\ pc' = "export"
            /\ UNCHANGED result
    /\ UNCHANGED <<cmd, args, failCause, exitCode, monVars, engineVars, resultVars,
                   fsVars, copyVars, uVars>>

\* organize.rs:68-90
OrganizeExport ==
    /\ cmd = "organize"
    /\ pc = "export"
    /\ IF ~IsSome(args.export)
       THEN /\ pc' = "copy"
            /\ UNCHANGED <<result, failCause, out, exportFile>>
       ELSE \E outcome \in ExportOutcomes, order \in KeyOrders(organized_images) :
            /\ exportFile' = ExportFileAfter(outcome,
                   ExportDataOrganize(organized_images, order,
                                      [base_path |-> args.target_path],
                                      args.directory,
                                      TotalFiles(organized_images)))
            /\ IF outcome = "written"
               THEN /\ out' = Append(out, Event("export_completed"))
                    /\ pc' = "copy"
                    /\ UNCHANGED <<result, failCause>>
               ELSE /\ ReturnErr("export")
                    /\ UNCHANGED out
    /\ UNCHANGED <<cmd, args, exitCode, monVars, engineVars, final_organized_images,
                   fsVars, copyVars, uVars>>

\* organize.rs:92-102: the call of copy_files_to_target, or the result of
\* the engine as it is
OrganizeCopy ==
    /\ cmd = "organize"
    /\ pc = "copy"
    /\ copyPc = "idle"
    /\ IF args.copy
       THEN IF IsSome(args.target_path)
            THEN /\ copyPc' = "start"
                 /\ UNCHANGED <<pc, result, failCause, final_organized_images>>
            ELSE /\ ReturnErr("copy_no_target")
                 /\ UNCHANGED <<copyPc, final_organized_images>>
       ELSE /\ final_organized_images' = Some(organized_images)
            /\ pc' = "display"
            /\ UNCHANGED <<copyPc, result, failCause>>
    /\ UNCHANGED <<cmd, args, exitCode, out, monVars, engineVars, exportFile, fsVars,
                   remaining, curKey, fileIdx, files_for_date, copied_files,
                   copy_errors, attemptLog, overwritten, uVars>>

\* organize.rs:104-106 and display_organize_results (109-157)
OrganizeDisplay ==
    /\ cmd = "organize"
    /\ pc = "display"
    /\ LET images == Unwrap(final_organized_images)
           shown == PrintOrganizePreview(images, errors)
                        \o DisplayErrors(errors, "Processing Errors")
       IN IF args.copy /\ ~IsSome(args.target_path)
          THEN /\ out' = out \o shown
               /\ ReturnErr("display_no_target")
          ELSE /\ out' = out \o shown \o
                     (IF args.copy
                      THEN <<[ev |-> "summary", copied |-> TotalFiles(images)]>>
                      ELSE <<>>)
               /\ result' = "ok"
               /\ pc' = "main_ok"
               /\ UNCHANGED failCause
    /\ UNCHANGED <<cmd, args, exitCode, monVars, engineVars, resultVars, fsVars,
                   copyVars, uVars>>

\* duplicates.rs:45-50
DuplicatesCompleted ==
    /\ cmd = "duplicates"
    /\ pc = "completed"
    /\ out' = Append(out, Event("completed"))
    /\ pc' = "dup_preview"
    /\ UNCHANGED <<cmd, args, result, failCause, exitCode, monVars, engineVars,
                   resultVars, fsVars, copyVars, uVars>>

\* duplicates.rs:68-75
DuplicatesPreview ==
    /\ cmd = "duplicates"
    /\ pc = "dup_preview"
    /\ out' = out \o PrintDuplicatesPreview(duplicate_groups, errors)
    /\ pc' = "dup_export"
    /\ UNCHANGED <<cmd, args, result, failCause, exitCode, monVars, engineVars,
                   resultVars, fsVars, copyVars, uVars>>

\* duplicates.rs:77-106
DuplicatesExport ==
    /\ cmd = "duplicates"
    /\ pc = "dup_export"
    /\ IF ~IsSome(args.export)
       THEN /\ pc' = "dup_errors"
            /\ UNCHANGED <<result, failCause, out, exportFile>>
       ELSE \E outcome \in ExportOutcomes :
            /\ exportFile' = ExportFileAfter(outcome,
                   ExportDataDuplicates(
                       ExportDuplicateGroups(duplicate_groups,
                                             Unwrap(similarity_threshold).value),
                       Unwrap(similarity_threshold).value,
                       args.directory,
                       SumGroups(duplicate_groups)))
            /\ IF outcome = "written"
               THEN /\ out' = Append(out, Event("export_completed"))
                    /\ pc' = "dup_errors"
                    /\ UNCHANGED <<result, failCause>>
               ELSE /\ ReturnErr("export")
                    /\ UNCHANGED out
    /\ UNCHANGED <<cmd, args, exitCode, monVars, engineVars, final_organized_images,
                   fsVars, copyVars, uVars>>

\* duplicates.rs:108-112 and 59
DuplicatesErrors ==
    /\ cmd = "duplicates"
    /\ pc = "dup_errors"
    /\ out' = out \o DisplayErrors(errors, "Processing Errors")
    /\ result' = "ok"
    /\ pc' = "main_ok"
    /\ UNCHANGED <<cmd, args, failCause, exitCode, monVars, engineVars, resultVars,
                   fsVars, copyVars, uVars>>

\* the process ends: a monitor thread that still runs ends with it
MonitorAtExit == IF monPc \in {"none", "exited"} THEN monPc ELSE "killed"

\* main.rs:39-41: Ok, the success line, and main returns
MainOk ==
    /\ pc = "main_ok"
    /\ out' = Append(out, Event("success_line"))
    /\ exitCode' = 0
    /\ monPc' = MonitorAtExit
    /\ pc' = "done"
    /\ UNCHANGED <<cmd, args, result, failCause, handle, monInfo, monHist,
                   engineVars, resultVars, fsVars, copyVars, uVars>>

\* main.rs:42-43: Err, the error line on stderr
MainErrPrint ==
    /\ pc = "main_err"
    /\ out' = Append(out, Event("error_line"))
    /\ pc' = "exit"
    /\ UNCHANGED <<cmd, args, result, failCause, exitCode, monVars, engineVars,
                   resultVars, fsVars, copyVars, uVars>>

\* main.rs:44: std::process::exit(1)
MainExit ==
    /\ pc = "exit"
    /\ exitCode' = 1
    /\ monPc' = MonitorAtExit
    /\ pc' = "done"
    /\ UNCHANGED <<cmd, args, result, failCause, out, handle, monInfo, monHist,
                   engineVars, resultVars, fsVars, copyVars, uVars>>

(***************************************************************************)
(* One invocation of the command line.                                     *)
(***************************************************************************)
OrganizeArgsSet ==
    [directory : {"src", "afile", "nowhere"},
     target_path : {None} \cup {Some(p) : p \in {"src", "src_link", "tgt", "newdir", "afile"}},
     copy : BOOLEAN,
     export : {None, Some("export_path")},
     threshold : {None},
     sensitivity : {None}]

DuplicatesArgsSet ==
    [directory : {"src", "afile", "nowhere"},
     target_path : {None},
     copy : {FALSE},
     export : {None, Some("export_path")},
     threshold : {None} \cup {Some(t) : t \in {-1, 0, 1, 5, 9, 10, 11}},
     sensitivity : {None, Some("low"), Some("high")}]

\* the target tree before the run: an existing directory may hold a file
\* already; a path that is no directory has no tree
TargetTrees(target_path) ==
    IF IsSome(target_path) /\ PathIsDir(Unwrap(target_path))
    THEN {[files |-> {}, dirs |-> {<<>>}],
          [files |-> {InDay1(NameAT)}, dirs |-> DirAndParents(Day1)]}
    ELSE {[files |-> {}, dirs |-> {}]}

Init ==
    /\ cmd \in {"organize", "duplicates"}
    /\ args \in (IF cmd = "organize" THEN OrganizeArgsSet ELSE DuplicatesArgsSet)
    /\ pc = "validate"
    /\ result = "none"
    /\ failCause = "none"
    /\ exitCode = -1
    /\ out = <<>>
    /\ handle = NewHandle
    /\ monPc = "none"
    /\ monInfo = None
    /\ monHist = [rendersAfterComplete |-> 0, sleepsAfterComplete |-> 0,
                  finalRenders |-> 0, statusAfterFinal |-> FALSE,
                  interleaved |-> FALSE]
    /\ engineUpdates = 0
    /\ engineInvoked = FALSE
    /\ monitorStarted = FALSE
    /\ organized_images = EmptyMap
    /\ duplicate_groups = <<>>
    /\ errors = <<>>
    /\ similarity_threshold = None
    /\ final_organized_images = None
    /\ exportFile = None
    /\ \E tree \in TargetTrees(args.target_path) :
          /\ preFiles = tree.files
          /\ preDirs = tree.dirs
    /\ fsFiles = preFiles
    /\ fsDirs = preDirs
    /\ CopyIdle
    /\ uTarget = InDay1(NameAT)
    /\ uResult = None

Next ==
    \/ OrganizeValidate \/ DuplicatesValidate \/ DuplicatesThreshold
    \/ StartProgressMonitoring
    \/ EngineInvoke \/ EngineUpdate \/ EngineMarkComplete \/ EngineReturn
    \/ Join
    \/ MonCheck \/ MonRead \/ MonRender \/ MonSleep \/ MonFinal
    \/ OrganizeCompleted \/ OrganizeExport \/ OrganizeCopy
    \/ CopyStart \/ CopyNextBucket \/ CopyFile \/ CopyEndBucket \/ CopyFinish
    \/ OrganizeDisplay
    \/ DuplicatesCompleted \/ DuplicatesPreview \/ DuplicatesExport \/ DuplicatesErrors
    \/ MainOk \/ MainErrPrint \/ MainExit

Spec == Init /\ [][Next]_vars

(***************************************************************************)
(* The same program with its scheduling: the primary flow and the monitor  *)
(* thread each keep running, and the engine call is one that marks the     *)
(* handle complete before it returns.                                      *)
(***************************************************************************)
\* the results of the runs that are followed to their end: nothing found,
\* and one file under one date
LiveOrganizeResults ==
    {r \in EngineOrganizeResults : DOMAIN r \in {{}, {KeyDash}}}

LiveErrorLists == {ErrorList(0), ErrorList(1)}

\* the engine call returns, the handle marked complete
EngineReturnCompleted ==
    /\ handle.complete
    /\ EngineReturn
    /\ organized_images' \in LiveOrganizeResults
    /\ errors' \in LiveErrorLists

PrimaryNext ==
    \/ OrganizeValidate \/ DuplicatesValidate \/ DuplicatesThreshold
    \/ StartProgressMonitoring
    \/ EngineInvoke \/ EngineUpdate \/ EngineMarkComplete \/ EngineReturnCompleted
    \/ Join
    \/ OrganizeCompleted \/ OrganizeExport \/ OrganizeCopy
    \/ CopyStart \/ CopyNextBucket \/ CopyFile \/ CopyEndBucket \/ CopyFinish
    \/ OrganizeDisplay
    \/ DuplicatesCompleted \/ DuplicatesPreview \/ DuplicatesExport \/ DuplicatesErrors
    \/ MainOk \/ MainErrPrint \/ MainExit

MonitorNext == MonCheck \/ MonRead \/ MonRender \/ MonSleep \/ MonFinal

NextLive == PrimaryNext \/ MonitorNext

\* the invocations whose runs are followed to their end: a source that is
\* missing, organize with and without copy into an existing directory,
\* duplicates with and without a threshold, all with an export
LiveArgs ==
    {a \in OrganizeArgsSet \cup DuplicatesArgsSet :
        /\ a.directory \in {"src", "nowhere"}
        /\ a.target_path \in {None, Some("tgt")}
        /\ a.copy = IsSome(a.target_path)
        /\ IsSome(a.export)
        /\ a.threshold \in {None, Some(5)}
        /\ a.sensitivity = None}

InitLive == Init /\ args \in LiveArgs /\ preFiles = {}

SpecLive ==
    InitLive /\ [][NextLive]_vars /\ WF_vars(PrimaryNext) /\ WF_vars(MonitorNext)

(***************************************************************************)
(* get_unique_filename exercised alone, the way test_get_unique_filename   *)
(* does: call it, write the returned path, call it again.                  *)
(***************************************************************************)
UniqueTargets == {NameAT, NameA, NameABT, NameHidden, NameHiddenT}

\* the files that may exist beside a target: the target, the names the
\* collision policy describes and the names the loop computes
UniqueUniverse(target) ==
    {target}
    \cup {InDay1(SuffixedName(target.name, k)) : k \in 1..MAX_FILENAME_ATTEMPTS}
    \cup {NextCandidate(target, FileStem(target.name), Extension(target.name), k) :
            k \in 1..MAX_FILENAME_ATTEMPTS}

InitUnique ==
    /\ OrchIdle
    /\ CopyIdle
    /\ organized_images = <<>>
    /\ uTarget \in {InDay1(n) : n \in UniqueTargets}
    /\ fsFiles \in SUBSET UniqueUniverse(uTarget)
    /\ fsDirs = DirAndParents(Day1)
    /\ preFiles = fsFiles
    /\ preDirs = fsDirs
    /\ uResult = None

CallGetUniqueFilename ==
    /\ pc = "idle"
    /\ uResult = None
    /\ uResult' = Some(GetUniqueFilename(fsFiles, uTarget))
    /\ UNCHANGED <<orchVars, monVars, engineVars, resultVars, fsVars, copyVars, uTarget>>

\* fs::write(&result, ..) of the test, after a successful call
WriteResult ==
    /\ pc = "idle"
    /\ IsSome(uResult)
    /\ Unwrap(uResult).ok
    /\ fsFiles' = fsFiles \cup {Unwrap(uResult).val}
    /\ uResult' = None
    /\ UNCHANGED <<orchVars, monVars, engineVars, resultVars, fsDirs, preFiles,
                   preDirs, copyVars, uTarget>>

NextUnique == CallGetUniqueFilename \/ WriteResult

SpecUnique == InitUnique /\ [][NextUnique]_vars

\* stems of the collision policy's plain case: no '.' inside the stem
PlainStem(name) == \A i \in DOMAIN FileStem(name) : i = 1 \/ FileStem(name)[i] # DOT

\* the target and S_1.E .. S_(k-1).E exist and S_k.E does not
FirstFreeSuffix(files, target, k) ==
    /\ target \in files
    /\ \A j \in 1..(k - 1) : InDay1(SuffixedName(target.name, j)) \in files
    /\ InDay1(SuffixedName(target.name, k)) \notin files

(***************************************************************************)
(* C4: get_unique_filename returns the target unchanged when it does not   *)
(* exist, and S_k.E when the target and S_1.E .. S_(k-1).E exist and S_k.E *)
(* does not, for every stem S, also one that contains dots.  (Stated for k *)
(* below the attempt bound, where the bound plays no part.)                *)
(***************************************************************************)
C4_SuffixOnStem ==
    IsSome(uResult) =>
        /\ (uTarget \notin fsFiles => Unwrap(uResult) = Ok(uTarget))
        /\ \A k \in 1..(MAX_FILENAME_ATTEMPTS - 1) :
              FirstFreeSuffix(fsFiles, uTarget, k)
                  => Unwrap(uResult) = Ok(InDay1(SuffixedName(uTarget.name, k)))

(***************************************************************************)
(* C5: the search tries the suffixed candidates _1 .. MAX_FILENAME_ATTEMPTS:*)
(* it returns an error iff the target and every one of them exist, and     *)
(* otherwise the candidate with the smallest free k.  (Stated for stems    *)
(* without dots.)                                                          *)
(***************************************************************************)
C5_BoundedSearch ==
    (IsSome(uResult) /\ PlainStem(uTarget.name)) =>
        /\ ~Unwrap(uResult).ok <=>
              /\ uTarget \in fsFiles
              /\ \A k \in 1..MAX_FILENAME_ATTEMPTS :
                    InDay1(SuffixedName(uTarget.name, k)) \in fsFiles
        /\ \A k \in 1..MAX_FILENAME_ATTEMPTS :
              FirstFreeSuffix(fsFiles, uTarget, k)
                  => Unwrap(uResult) = Ok(InDay1(SuffixedName(uTarget.name, k)))


(***************************************************************************)
(* copy_files_to_target on its own: handle_organize has reached the call   *)
(* (organize.rs:94) with --copy and a target path, for every result map    *)
(* and every target tree of the bounds.                                    *)
(***************************************************************************)
CopyNames == {NameAT, NameABT}

\* maps over the date keys: KeyDash with up to MaxFiles files, KeySlash (the
\* same directory) with at most one, the malformed KeyBad with one
CopyInputs ==
    LET choice(k) ==
            CASE k = KeyDash -> {None} \cup {Some(f) : f \in SeqsUpTo(CopyNames, MaxFiles)}
              [] k = KeySlash -> {None} \cup {Some(f) : f \in SeqsUpTo(CopyNames, 1)}
              [] OTHER -> {None, Some(<<NameAT>>)}
    IN UNION {
         { [k \in {x \in DateKeys : IsSome(c[x])} |-> Unwrap(c[k])] }
           : c \in {c \in [DateKeys -> UNION {choice(k) : k \in DateKeys}] :
                      \A k \in DateKeys : c[k] \in choice(k)} }

\* files that may be in the target tree before the run
CopyPreFiles == {InDay1(NameAT), InDay1(SuffixedName(NameAT, 1)),
                 InDay1(SuffixedName(NameAT, 2))}

\* the primary flow at the call of copy_files_to_target
OrchAtCopy(target) ==
    /\ cmd = "organize"
    /\ args = [directory |-> "src", target_path |-> Some(target), copy |-> TRUE,
               export |-> None, threshold |-> None, sensitivity |-> None]
    /\ pc = "copy"
    /\ result = "none"
    /\ failCause = "none"
    /\ exitCode = -1
    /\ out = <<Event("completed")>>
    /\ handle = [phase |-> "Initializing", percentage |-> None,
                 current_file |-> None, complete |-> TRUE]
    /\ monPc = "exited"
    /\ monInfo = None
    /\ monHist = [rendersAfterComplete |-> 0, sleepsAfterComplete |-> 0,
                  finalRenders |-> 1,
                  statusAfterFinal |-> FALSE, interleaved |-> FALSE]
    /\ engineUpdates = 0
    /\ engineInvoked = TRUE
    /\ monitorStarted = TRUE
    /\ duplicate_groups = <<>>
    /\ errors = <<>>
    /\ similarity_threshold = None
    /\ final_organized_images = None
    /\ exportFile = None

InitCopy ==
    /\ \E target \in {"tgt", "newdir"} :
        /\ OrchAtCopy(target)
        /\ IF target = "tgt"
           THEN /\ preFiles \in SUBSET CopyPreFiles
                /\ preDirs = IF preFiles = {} THEN {<<>>} ELSE DirAndParents(Day1)
           ELSE /\ preFiles = {}
                /\ preDirs = {}
    /\ fsFiles = preFiles
    /\ fsDirs = preDirs
    /\ organized_images \in CopyInputs
    /\ copyPc = "start"
    /\ remaining = {}
    /\ curKey = None
    /\ fileIdx = 0
    /\ files_for_date = <<>>
    /\ copied_files = EmptyMap
    /\ copy_errors = <<>>
    /\ attemptLog = <<>>
    /\ overwritten = {}
    /\ uTarget = InDay1(NameAT)
    /\ uResult = None

NextCopy == CopyStart \/ CopyNextBucket \/ CopyFile \/ CopyEndBucket \/ CopyFinish

SpecCopy == InitCopy /\ [][NextCopy]_vars


\* the log entries of one date key
LogOf(date) == SelectSeq(attemptLog, LAMBDA e : e.key = date)

\* the destinations of the copies of one date key that succeeded, in the
\* order the files were handled
SuccessDests(date) ==
    LET ok == SelectSeq(attemptLog, LAMBDA e : e.key = date /\ e.outcome = "copied")
    IN [i \in 1..Len(ok) |-> Unwrap(ok[i].dest)]

\* the per-file errors recorded for one date key
FileErrorsOf(date) ==
    SelectSeq(copy_errors, LAMBDA e : e.key = date /\ e.kind \in {"unique", "copy"})

\* a well-formed bucket whose date directory was created
Processed(date) ==
    /\ date \in DOMAIN organized_images
    /\ IsSome(ParseDateString(date))
    /\ ~\E i \in DOMAIN copy_errors :
           copy_errors[i].kind = "mkdir" /\ copy_errors[i].key = date

CopyReturnedOk == copyPc = "returned" /\ result # "err"

(***************************************************************************)
(* C3: every copy goes to a destination that did not exist when it was     *)
(* checked: no file that was there before the run and no file written      *)
(* earlier in the run is overwritten or deleted.                           *)
(***************************************************************************)
C3_NeverOverwrites ==
    /\ overwritten = {}
    /\ preFiles \subseteq fsFiles
    /\ \A i \in DOMAIN attemptLog :
          IsSome(attemptLog[i].dest) =>
              /\ Unwrap(attemptLog[i].dest) \notin preFiles
              /\ attemptLog[i].outcome # "failed"
                     => Unwrap(attemptLog[i].dest) \in fsFiles
              /\ \A j \in 1..(i - 1) :
                    attemptLog[j].outcome \in {"copied", "failed_partial"}
                        => attemptLog[j].dest # attemptLog[i].dest

\* a file name that is in the target tree already is copied from a bucket of
\* KeyDash twice and from the bucket of KeySlash, the same directory
C3_Witness ==
    /\ copyPc = "returned"
    /\ InDay1(NameAT) \in preFiles
    /\ \E i, j, k \in DOMAIN attemptLog :
          /\ i < j
          /\ attemptLog[i].key = KeyDash /\ attemptLog[j].key = KeyDash
          /\ attemptLog[k].key = KeySlash
          /\ \A n \in {i, j, k} :
                /\ attemptLog[n].outcome = "copied"
                /\ organized_images[attemptLog[n].key][attemptLog[n].idx] = NameAT

(***************************************************************************)
(* C6: a failure of one file (copy error, or the unique-name bound) is     *)
(* recorded in copy_errors and the loop goes on; it never makes            *)
(* copy_files_to_target return an error, and in the end every file of      *)
(* every well-formed bucket whose directory was created has been attempted *)
(* exactly once.                                                           *)
(***************************************************************************)
C6_BestEffortPerFile ==
    /\ \A i \in DOMAIN attemptLog :
          LET e == attemptLog[i]
          IN /\ e.outcome # "copied" =>
                   \E n \in DOMAIN copy_errors :
                       /\ copy_errors[n].key = e.key
                       /\ copy_errors[n].idx = e.idx
                       /\ copy_errors[n].kind =
                              (IF e.outcome = "name_failed" THEN "unique" ELSE "copy")
             /\ \A j \in DOMAIN attemptLog :
                   (attemptLog[j].key = e.key /\ attemptLog[j].idx = e.idx) => j = i
    /\ (result = "err" /\ failCause = "target_dir") => attemptLog = <<>>
    /\ attemptLog # <<>> => result # "err"
    /\ CopyReturnedOk =>
          \A date \in DOMAIN organized_images :
              (Processed(date) /\ TotalFiles(organized_images) > 0) =>
                  \A idx \in 1..Len(organized_images[date]) :
                      Cardinality({i \in DOMAIN attemptLog :
                                     attemptLog[i].key = date
                                     /\ attemptLog[i].idx = idx}) = 1

\* the unique-name bound is exceeded for one file, the copy of another fails
\* and a file of another bucket is copied after both
C6_Witness ==
    /\ CopyReturnedOk
    /\ \E i, j, k \in DOMAIN attemptLog :
          /\ i < k /\ j < k
          /\ attemptLog[i].outcome = "name_failed"
          /\ attemptLog[j].outcome \in {"failed", "failed_partial"}
          /\ attemptLog[k].outcome = "copied"
          /\ attemptLog[k].key # attemptLog[i].key
          /\ attemptLog[k].key # attemptLog[j].key

(***************************************************************************)
(* C7: the returned map holds, for each of its date keys, exactly the      *)
(* destinations of the copies that succeeded, in input order; for every    *)
(* processed bucket, paths returned + per-file errors = input files; the   *)
(* paths returned are never more than the input files.                     *)
(***************************************************************************)
C7_ReturnedMap ==
    (CopyReturnedOk /\ IsSome(final_organized_images)) =>
        LET ret == Unwrap(final_organized_images)
        IN /\ \A date \in DOMAIN ret :
                 /\ ret[date] = SuccessDests(date)
                 /\ \A i \in DOMAIN ret[date] : ret[date][i] \in fsFiles
                 /\ \A i, j \in DOMAIN LogOf(date) :
                       i < j => LogOf(date)[i].idx < LogOf(date)[j].idx
                 /\ Processed(date) =>
                       Len(ret[date]) + Len(FileErrorsOf(date))
                           = Len(organized_images[date])
           /\ TotalFiles(ret) <= TotalFiles(organized_images)

\* of the two files of one bucket the first fails and the second is written
\* under a new name
C7_Witness ==
    /\ CopyReturnedOk
    /\ IsSome(final_organized_images)
    /\ KeyDash \in DOMAIN Unwrap(final_organized_images)
    /\ Len(organized_images[KeyDash]) = 2
    /\ Len(Unwrap(final_organized_images)[KeyDash]) = 1
    /\ \E i \in DOMAIN attemptLog :
          /\ attemptLog[i].key = KeyDash /\ attemptLog[i].idx = 2
          /\ attemptLog[i].outcome = "copied"
          /\ Unwrap(attemptLog[i].dest).name # organized_images[KeyDash][2]


(***************************************************************************)
(* Claims about the primary flow and the monitor, under Spec.              *)
(***************************************************************************)
\* the primary flow has printed a result, written the export or touched the
\* target tree
ResultActivity ==
    \/ \E i \in DOMAIN out : out[i].ev # "error_line"
    \/ exportFile # None
    \/ copyPc # "idle"
    \/ fsFiles # preFiles
    \/ fsDirs # preDirs

TreeUntouched == fsFiles = preFiles /\ fsDirs = preDirs /\ copyPc = "idle"

(***************************************************************************)
(* C1: where the engine call returned Ok, no result output, no export and  *)
(* no copy begins before the monitor thread has terminated, so no render   *)
(* of the monitor falls among what the primary flow does after the join.   *)
(***************************************************************************)
C1_JoinBeforeResults ==
    /\ ResultActivity => monPc = "exited"
    /\ AfterJoin => monPc = "exited"
    /\ ~monHist.interleaved

\* organize has exported and copied after a monitor that rendered a status
C1_Witness ==
    /\ cmd = "organize"
    /\ pc = "done" /\ result = "ok"
    /\ monInfo # None
    /\ exportFile # None
    /\ fsFiles # preFiles

(***************************************************************************)
(* C2: after complete is set the monitor renders at most one more status   *)
(* line and sleeps at most once more; the final line is rendered at most   *)
(* once, exactly once when the thread has exited, only after the flag was  *)
(* seen, and no status line follows it.                                    *)
(***************************************************************************)
C2_MonitorStopsAfterComplete ==
    /\ monHist.rendersAfterComplete <= 1
    /\ monHist.sleepsAfterComplete <= 1
    /\ monHist.finalRenders <= 1
    /\ monPc = "exited" <=> monHist.finalRenders = 1
    /\ monHist.finalRenders = 1 => handle.complete
    /\ ~monHist.statusAfterFinal

\* the flag was set right after the monitor tested it: one render and one
\* sleep more, then the final line
C2_Witness ==
    /\ monPc = "exited"
    /\ monHist.rendersAfterComplete = 1
    /\ monHist.sleepsAfterComplete = 1
    /\ monHist.finalRenders = 1

(***************************************************************************)
(* C8: organize with --copy and no --target-path fails in validation,      *)
(* before the engine is invoked, whatever the engine would return.         *)
(***************************************************************************)
CopyWithoutTarget == cmd = "organize" /\ args.copy /\ ~IsSome(args.target_path)

C8_CopyNeedsTargetPath ==
    CopyWithoutTarget =>
        /\ ~engineInvoked
        /\ ~monitorStarted
        /\ pc \in {"validate", "main_err", "exit", "done"}
        /\ pc # "validate" => (result = "err" /\ failCause = "validation")
        /\ pc = "done" => exitCode = 1

C8_Witness ==
    /\ CopyWithoutTarget
    /\ args.directory = "src"
    /\ pc = "done"
    /\ result = "err"
    /\ exitCode = 1

(***************************************************************************)
(* C9: validation comes first.  With a source that is missing or no        *)
(* directory, a target that is the source directory, --copy without a      *)
(* target, or a threshold out of range, the command fails in validation:   *)
(* no monitor is started, the engine is not invoked, nothing is exported   *)
(* and nothing is created; validation itself writes nothing.               *)
(***************************************************************************)
\* the directory a path names, links followed
Physical(p) == IF p = "src_link" THEN "src" ELSE p

InvalidArgs ==
    \/ PathKind(args.directory) # "dir"
    \/ /\ cmd = "organize"
       /\ IsSome(args.target_path)
       /\ PathKind(Unwrap(args.target_path)) = "dir"
       /\ Physical(Unwrap(args.target_path)) = Physical(args.directory)
    \/ CopyWithoutTarget
    \/ /\ cmd = "duplicates"
       /\ IsSome(args.threshold)
       /\ (Unwrap(args.threshold) < 0 \/ Unwrap(args.threshold) > 10)

NothingStarted ==
    /\ ~monitorStarted
    /\ monPc = "none"
    /\ ~engineInvoked
    /\ exportFile = None
    /\ TreeUntouched

C9_ValidationFirst ==
    /\ InvalidArgs =>
          /\ NothingStarted
          /\ pc # "validate" => (result = "err" /\ failCause = "validation")
    /\ (pc = "validate" \/ failCause = "validation") => NothingStarted
    /\ failCause = "validation" => InvalidArgs

C9_Witness ==
    /\ cmd = "duplicates"
    /\ args.directory = "src"
    /\ IsSome(args.threshold) /\ Unwrap(args.threshold) > 10
    /\ IsSome(args.sensitivity)
    /\ IsSome(args.export)
    /\ pc = "done"
    /\ failCause = "validation"

(***************************************************************************)
(* C10: an Err of the engine call ends the command in Failure with a       *)
(* non-zero exit code and nothing more is done: no result output, no       *)
(* export, no copy.  Per-item errors beside an Ok never make the command   *)
(* fail: it fails only where an export or the target directory fails, and  *)
(* the errors shown are the engine's.                                      *)
(***************************************************************************)
ShowsErrors(errs) ==
    \E i \in DOMAIN out :
        /\ out[i].ev = "errors"
        /\ out[i].type = "Processing Errors"
        /\ out[i].shown = Take(errs, MAX_DISPLAY_ITEMS)
        /\ Len(out[i].shown) + out[i].more = Len(errs)

C10_EngineFailureAborts ==
    /\ failCause = "engine" =>
          /\ result = "err"
          /\ pc \in {"main_err", "exit", "done"}
          /\ \A i \in DOMAIN out : out[i].ev = "error_line"
          /\ exportFile = None
          /\ TreeUntouched
          /\ pc = "done" => exitCode = 1
    /\ (pc = "done" /\ engineInvoked /\ failCause # "engine") =>
          /\ result = "err" <=> failCause \in {"export", "target_dir"}
          /\ result = "ok" <=> exitCode = 0
          /\ failCause = "export" =>
                (exportFile = None \/ ~Unwrap(exportFile).complete)
          /\ failCause = "target_dir" => <<>> \notin fsDirs
          /\ (result = "ok" /\ errors # <<>>) => ShowsErrors(errors)

\* the engine fails with an export and a copy requested
C10_Witness ==
    /\ failCause = "engine"
    /\ cmd = "organize"
    /\ args.copy /\ IsSome(args.target_path) /\ IsSome(args.export)
    /\ pc = "done"
    /\ exitCode = 1

(***************************************************************************)
(* Claims about the steps after the join, under Spec.                      *)
(***************************************************************************)
HasEvent(e) == \E i \in DOMAIN out : out[i].ev = e

\* the command has ended after an export step that was requested, was
\* reached and did not report its completion
ExportStepFailed ==
    /\ pc = "done"
    /\ IsSome(args.export)
    /\ HasEvent("completed")
    /\ ~HasEvent("no_images")
    /\ ~HasEvent("export_completed")

(***************************************************************************)
(* C11: a failure to create or write the export file aborts the export     *)
(* step only: the command still copies (organize with --copy), shows the   *)
(* errors and the summary, and ends in Success.                            *)
(***************************************************************************)
C11_ExportFailureIsLocal ==
    ExportStepFailed =>
        /\ result = "ok"
        /\ exitCode = 0
        /\ (cmd = "organize" /\ args.copy) => copyPc = "returned"
        /\ errors # <<>> => ShowsErrors(errors)

(***************************************************************************)
(* C12: in both orchestrators the preview of the results is presented      *)
(* before the export file is written and before anything is copied, the    *)
(* export comes before the copy, and the summary comes last.               *)
(***************************************************************************)
PreviewPresented ==
    HasEvent("preview") \/ HasEvent("no_images") \/ HasEvent("no_duplicates")

C12_StepOrder ==
    /\ HasEvent("export_completed") => PreviewPresented
    /\ ~TreeUntouched => PreviewPresented
    /\ (copyPc # "idle" /\ IsSome(args.export)) => HasEvent("export_completed")
    /\ HasEvent("summary") => (copyPc = "returned" /\ PreviewPresented)

(***************************************************************************)
(* C13: when the engine returns an empty result and no errors the command  *)
(* ends in Success with exit code 0, organize and duplicates alike, and    *)
(* organize creates no directory and copies no file.                       *)
(***************************************************************************)
EngineReturnedNothing ==
    /\ HasEvent("completed")
    /\ errors = <<>>
    /\ IF cmd = "organize" THEN DOMAIN organized_images = {}
                           ELSE duplicate_groups = <<>>

C13_NothingFoundIsSuccess ==
    EngineReturnedNothing =>
        /\ result # "err"
        /\ pc = "done" => (result = "ok" /\ exitCode = 0)
        /\ TreeUntouched

(***************************************************************************)
(* C14: no accumulated error is lost.  When the engine call returned Ok    *)
(* with per-item errors, these are rendered before the command ends, also  *)
(* where a later export or copy step fails; and the errors the copy loop   *)
(* accumulated are rendered before the command ends.                       *)
(***************************************************************************)
ShowsCopyErrors(errs) ==
    \E i \in DOMAIN out :
        /\ out[i].ev = "errors"
        /\ out[i].type = "Copy Errors"
        /\ out[i].shown = Take(errs, MAX_DISPLAY_ITEMS)
        /\ Len(out[i].shown) + out[i].more = Len(errs)

C14_NoErrorLost ==
    pc = "done" =>
        /\ (HasEvent("completed") /\ errors # <<>>) => ShowsErrors(errors)
        /\ copy_errors # <<>> => ShowsCopyErrors(copy_errors)

(***************************************************************************)
(* C15: the monitor only reads the handle and the primary flow does not    *)
(* write it after creating it: every step of the monitor and every step of *)
(* the primary flow leaves phase, percentage, current item and the         *)
(* complete flag as they are, and complete is never reset to false.        *)
(***************************************************************************)
MonitorStep == monPc' # monPc \/ monInfo' # monInfo \/ monHist' # monHist

PrimaryFlowStep == pc' # pc \/ out' # out \/ copyPc' # copyPc

C15_HandleSingleWriter ==
    [][/\ (MonitorStep \/ PrimaryFlowStep) => handle' = handle
       /\ handle.complete => handle'.complete]_vars

\* the monitor has read a handle the engine had written, and has ended
C15_Witness ==
    /\ pc = "done"
    /\ monPc = "exited"
    /\ handle.complete
    /\ IsSome(monInfo)
    /\ Unwrap(monInfo).phase # "Initializing"
    /\ IsSome(handle.current_file)

(***************************************************************************)
(* Claims about the export document, under Spec.                           *)
(***************************************************************************)
\* the leaf items of the result collections, counted one by one
OrganizeLeaves ==
    UNION {{<<k, i>> : i \in DOMAIN organized_images[k]} : k \in DOMAIN organized_images}

DuplicateLeaves ==
    UNION {{<<g, i>> : i \in DOMAIN duplicate_groups[g]} : g \in DOMAIN duplicate_groups}

ExportDoc == Unwrap(exportFile).doc

ExportRecords == ExportDoc.data.file_records

\* the records of one date, in the order of the document
RecordsOfDate(date) ==
    LET OfDate(r) == r.date_directory = date
    IN SelectSeq(ExportRecords, OfDate)

(***************************************************************************)
(* C16: the export document of a result collection with N leaf items has   *)
(* exactly N records, one per file, none dropped or duplicated; the total  *)
(* item count of the metadata is N; and N is the sum of the files per date *)
(* (organize) or of the group sizes (duplicates).                          *)
(***************************************************************************)
C16_ExportRecordCount ==
    IsSome(exportFile) =>
        /\ ExportDoc.metadata.total_processed = Len(ExportRecords)
        /\ IF cmd = "organize"
           THEN /\ Len(ExportRecords) = Cardinality(OrganizeLeaves)
                /\ Len(ExportRecords) = TotalFiles(organized_images)
                /\ \A i \in DOMAIN ExportRecords :
                      ExportRecords[i].date_directory \in DOMAIN organized_images
                /\ \A k \in DOMAIN organized_images :
                      [i \in DOMAIN RecordsOfDate(k) |-> RecordsOfDate(k)[i].original_path]
                          = organized_images[k]
           ELSE /\ Len(ExportRecords) = Cardinality(DuplicateLeaves)
                /\ Len(ExportRecords) = SumGroups(duplicate_groups)
                /\ [i \in DOMAIN ExportRecords |-> ExportRecords[i].file_path]
                      = Flatten(duplicate_groups)

\* an organize export of three files under two dates
C16_Witness ==
    /\ cmd = "organize"
    /\ IsSome(exportFile)
    /\ Unwrap(exportFile).complete
    /\ Cardinality(DOMAIN organized_images) = 2
    /\ Len(ExportRecords) = 3

(***************************************************************************)
(* C17: in a duplicates export document the records of one group carry the *)
(* positions 1, 2, .., group_size in order, group_size is the number of    *)
(* records of the group, and the group_id group_<index+1> is the same for  *)
(* all records of a group and different for different groups.              *)
(***************************************************************************)
\* the records of one group id, in the order of the document
RecordsOfGroup(id) ==
    LET OfGroup(r) == r.group_id = id
    IN SelectSeq(ExportRecords, OfGroup)

GroupIdsOfDocument == {ExportRecords[i].group_id : i \in DOMAIN ExportRecords}

C17_DuplicateGroupRecords ==
    (cmd = "duplicates" /\ IsSome(exportFile)) =>
        /\ \A id \in GroupIdsOfDocument :
              LET recs == RecordsOfGroup(id)
              IN /\ [i \in DOMAIN recs |-> recs[i].position_in_group]
                       = [i \in 1..Len(recs) |-> i]
                 /\ \A i \in DOMAIN recs : recs[i].group_size = Len(recs)
        /\ \A g \in DOMAIN duplicate_groups :
              LET recs == RecordsOfGroup(<<"group_", ToString(g)>>)
              IN [i \in DOMAIN recs |-> recs[i].file_path] = duplicate_groups[g]
        /\ Cardinality(GroupIdsOfDocument) = Len(duplicate_groups)

\* a document of two groups, of two and of three files
C17_Witness ==
    /\ cmd = "duplicates"
    /\ IsSome(exportFile)
    /\ Unwrap(exportFile).complete
    /\ Len(duplicate_groups) = 2
    /\ Len(ExportRecords) = 5
    /\ Cardinality(GroupIdsOfDocument) = 2

(***************************************************************************)
(* Claims about the validators, under Spec.                                *)
(***************************************************************************)
ValidationDone == pc # "validate"

ValidationFailed == result = "err" /\ failCause = "validation"

SourceIsDirectory == PathKind(args.directory) = "dir"

TargetIsDirectory ==
    IsSome(args.target_path) /\ PathKind(Unwrap(args.target_path)) = "dir"

(***************************************************************************)
(* C18: validate_organize_args fails when the target exists as a directory *)
(* and is, links followed, the source directory, before any file is        *)
(* touched; it accepts two distinct existing directories; and a target     *)
(* that does not exist as a directory is not compared with the source.     *)
(***************************************************************************)
C18_SameDirectoryRejected ==
    (cmd = "organize" /\ SourceIsDirectory /\ IsSome(args.target_path)) =>
        IF TargetIsDirectory
              /\ Physical(Unwrap(args.target_path)) = Physical(args.directory)
        THEN /\ ValidationDone => ValidationFailed
             /\ NothingStarted
        ELSE ValidationDone => ~ValidationFailed

\* the target is a link to the source directory
C18_Witness ==
    /\ cmd = "organize"
    /\ args.directory = "src"
    /\ args.target_path = Some("src_link")
    /\ args.copy
    /\ pc = "done"
    /\ ValidationFailed
    /\ exitCode = 1

(***************************************************************************)
(* C19: validate_similarity_threshold(t) succeeds exactly when             *)
(* 0.0 <= t <= 1.0, both ends accepted, and validate_duplicates_args       *)
(* applies it to every --threshold supplied.  Thresholds are tenths.       *)
(***************************************************************************)
InThresholdRange(t) == t >= 0 /\ t <= 10

C19_ThresholdRange ==
    /\ \A t \in -1..11 : ValidateSimilarityThreshold(t).ok <=> InThresholdRange(t)
    /\ (cmd = "duplicates" /\ SourceIsDirectory /\ IsSome(args.threshold)
          /\ ValidationDone) =>
           (ValidationFailed <=> ~InThresholdRange(Unwrap(args.threshold)))

\* the upper end was supplied and accepted
C19_Witness ==
    /\ cmd = "duplicates"
    /\ args.threshold = Some(10)
    /\ args.sensitivity = None
    /\ pc = "done"
    /\ result = "ok"
    /\ similarity_threshold = Some([kind |-> "custom", value |-> 10])

(***************************************************************************)
(* C20: validate_directory succeeds exactly for a path that exists and is  *)
(* a directory; both validate_organize_args and validate_duplicates_args   *)
(* apply it to the source first, so that its error is the one returned     *)
(* whatever else is wrong with the arguments.                              *)
(***************************************************************************)
ValidateArgs ==
    IF cmd = "organize" THEN ValidateOrganizeArgs(args) ELSE ValidateDuplicatesArgs(args)

DirectoryError(p) ==
    IF PathKind(p) = "missing" THEN "does_not_exist" ELSE "not_a_directory"

C20_SourceDirectoryFirst ==
    /\ \A p \in Paths : ValidateDirectory(p).ok <=> PathKind(p) = "dir"
    /\ ~SourceIsDirectory =>
          /\ ValidateArgs = Err(DirectoryError(args.directory))
          /\ ValidationDone => ValidationFailed
          /\ NothingStarted

\* the source is a regular file and --copy has no target path
C20_Witness ==
    /\ cmd = "organize"
    /\ args.directory = "afile"
    /\ CopyWithoutTarget
    /\ pc = "done"
    /\ ValidationFailed
    /\ exitCode = 1

(***************************************************************************)
(* Claims about the date keys of copy_files_to_target, under SpecCopy.     *)
(***************************************************************************)
\* a key with exactly two separators has exactly three components
ThreeComponents(date) ==
    Cardinality({i \in DOMAIN date : date[i] \in {"-", "/"}}) = 2

MalformedKeys == {d \in DOMAIN organized_images : ~ThreeComponents(d)}

WellFormedKeys == {d \in DOMAIN organized_images : ThreeComponents(d)}

ErrorsOfKey(date) == SelectSeq(copy_errors, LAMBDA e : e.key = date)

(***************************************************************************)
(* C21: a date key that does not split into exactly three components is    *)
(* skipped softly: no directory is created and no file copied for it, no   *)
(* error is recorded for it, and the other buckets are still processed; a  *)
(* key of three components is copied under target/<1st>/<2nd>/<3rd>/.      *)
(***************************************************************************)
C21_MalformedKeySoftSkip ==
    /\ \A d \in MalformedKeys : LogOf(d) = <<>> /\ ErrorsOfKey(d) = <<>>
    /\ WellFormedKeys = {} => (fsDirs \subseteq preDirs \cup {<<>>} /\ fsFiles = preFiles)
    /\ fsDirs \subseteq preDirs \cup DirAndParents(Day1)
    /\ \A i \in DOMAIN attemptLog :
          IsSome(attemptLog[i].dest) => Unwrap(attemptLog[i].dest).dir = Day1
    /\ (CopyReturnedOk /\ IsSome(final_organized_images)
          /\ TotalFiles(organized_images) > 0) =>
          \A d \in WellFormedKeys :
              \/ Len(LogOf(d)) = Len(organized_images[d])
              \/ \E i \in DOMAIN copy_errors :
                    copy_errors[i].kind = "mkdir" /\ copy_errors[i].key = d

\* a malformed key beside a well-formed one whose files were copied
C21_Witness ==
    /\ CopyReturnedOk
    /\ IsSome(final_organized_images)
    /\ KeyBad \in DOMAIN organized_images
    /\ organized_images[KeyBad] # <<>>
    /\ KeyDash \in DOMAIN organized_images
    /\ Len(SuccessDests(KeyDash)) = 2
    /\ copy_errors = <<>>

(***************************************************************************)
(* Claims about the threshold of duplicates, under Spec.                   *)
(***************************************************************************)
\* the command failed because of its threshold arguments
ThresholdFailure == result = "err" /\ failCause \in {"validation", "threshold"}

\* what the configuration holds once the monitor has been started
EffectiveThresholdIs(th) ==
    /\ IsSome(similarity_threshold) => Unwrap(similarity_threshold) = th
    /\ monitorStarted => IsSome(similarity_threshold)
    /\ (IsSome(exportFile)) => ExportDoc.data.similarity_threshold = th.value

ThresholdChoice ==
    /\ (~IsSome(args.sensitivity) /\ IsSome(args.threshold)) =>
          /\ EffectiveThresholdIs([kind |-> "custom", value |-> Unwrap(args.threshold)])
          /\ ValidationDone =>
                (ThresholdFailure <=> ~InThresholdRange(Unwrap(args.threshold)))
    /\ (~IsSome(args.sensitivity) /\ ~IsSome(args.threshold)) =>
          /\ EffectiveThresholdIs([kind |-> "preset", value |-> "medium"])
          /\ ~ThresholdFailure

(***************************************************************************)
(* C22 as stated: when a --sensitivity preset is supplied the effective    *)
(* threshold is the preset's and the --threshold value has no effect on    *)
(* the outcome of the command; with --threshold alone that value is used,  *)
(* with neither the medium preset.                                         *)
(***************************************************************************)
C22_PresetOverridesThreshold ==
    (cmd = "duplicates" /\ SourceIsDirectory) =>
        /\ IsSome(args.sensitivity) =>
              /\ EffectiveThresholdIs([kind |-> "preset",
                                       value |-> Unwrap(args.sensitivity)])
              /\ ~ThresholdFailure
        /\ ThresholdChoice

(***************************************************************************)
(* C22 amended: when a preset is supplied and the --threshold supplied, if *)
(* any, lies in 0.0..1.0, the effective threshold is the preset's and the  *)
(* threshold value has no effect; a --threshold outside 0.0..1.0 fails     *)
(* validation also when a preset is supplied.  With --threshold alone that *)
(* value is used, with neither the medium preset.                          *)
(***************************************************************************)
C22_PresetOverridesValidThreshold ==
    (cmd = "duplicates" /\ SourceIsDirectory) =>
        /\ IsSome(args.sensitivity) =>
              /\ EffectiveThresholdIs([kind |-> "preset",
                                       value |-> Unwrap(args.sensitivity)])
              /\ IF IsSome(args.threshold) /\ ~InThresholdRange(Unwrap(args.threshold))
                 THEN ValidationDone => (ValidationFailed /\ ~monitorStarted)
                 ELSE ~ThresholdFailure
        /\ ThresholdChoice

\* a preset and a threshold in range: the preset is the configuration
C22_Witness ==
    /\ cmd = "duplicates"
    /\ args.sensitivity = Some("high")
    /\ args.threshold = Some(5)
    /\ IsSome(args.export)
    /\ pc = "done"
    /\ result = "ok"
    /\ similarity_threshold = Some([kind |-> "preset", value |-> "high"])
    /\ IsSome(exportFile)

(***************************************************************************)
(* C23: every error listing of a list of n errors renders the first        *)
(* min(n, MAX_DISPLAY_ITEMS) errors in order, and the "... and N more      *)
(* errors" line exactly when n > MAX_DISPLAY_ITEMS, with                   *)
(* N = n - MAX_DISPLAY_ITEMS; for n = 0 nothing is rendered.               *)
(***************************************************************************)
\* the list an error listing of the output was made from
ListedErrors(type) == IF type = "Copy Errors" THEN copy_errors ELSE errors

ErrorListings == {i \in DOMAIN out : out[i].ev = "errors"}

C23_ErrorListing ==
    \A i \in ErrorListings :
        LET l == ListedErrors(out[i].type)
            n == Len(l)
        IN /\ n > 0
           /\ Len(out[i].shown) = (IF n < MAX_DISPLAY_ITEMS THEN n ELSE MAX_DISPLAY_ITEMS)
           /\ \A j \in DOMAIN out[i].shown : out[i].shown[j] = l[j]
           /\ out[i].more > 0 <=> n > MAX_DISPLAY_ITEMS
           /\ out[i].more > 0 => out[i].more = n - MAX_DISPLAY_ITEMS

\* a listing that was cut, with its "more" line, and the command went on
C23_Witness ==
    /\ pc = "done"
    /\ result = "ok"
    /\ \E i \in ErrorListings :
          /\ Len(out[i].shown) = MAX_DISPLAY_ITEMS
          /\ out[i].more = MaxErrors - MAX_DISPLAY_ITEMS
    /\ \E i \in ErrorListings : out[i].type = "Copy Errors"

(***************************************************************************)
(* C24: with the monitor thread scheduled fairly and an engine that marks  *)
(* the handle complete before its call returns, the monitor exits, the     *)
(* join returns, and every invocation ends in Success or Failure.  The     *)
(* primary flow itself never sets the complete flag.  Under SpecLive.      *)
(***************************************************************************)
C24_JoinLiveness ==
    /\ <>(pc = "done" /\ result \in {"ok", "err"})
    /\ (pc = "join") ~> (monPc = "exited")
    /\ (pc = "join") ~> (pc = "completed")
    /\ [][PrimaryFlowStep => handle'.complete = handle.complete]_vars

\* the join has returned after a monitor that went round its loop
C24_Witness ==
    /\ pc = "completed"
    /\ monPc = "exited"
    /\ IsSome(monInfo)
    /\ handle.complete

(***************************************************************************)
(* C25: on every path on which a handler returns after it started the      *)
(* monitor, the engine's failure included, the monitor thread has          *)
(* terminated before the return, so the monitor renders no status line     *)
(* after main has written the error line.                                  *)
(***************************************************************************)
HandlerReturned == pc \in {"main_ok", "main_err", "exit", "done"}

C25_MonitorEndsBeforeReturn ==
    /\ [](monitorStarted /\ HandlerReturned => monPc = "exited")
    /\ [][HasEvent("error_line") => ~MonRender]_vars

(***************************************************************************)
(* C26: a command given --export that ends in Success has written an       *)
(* export document to the export path, organize and duplicates alike, and  *)
(* also when the engine found zero items.                                  *)
(***************************************************************************)
C26_ExportWrittenOnSuccess ==
    (pc = "done" /\ result = "ok" /\ IsSome(args.export))
        => (IsSome(exportFile) /\ Unwrap(exportFile).complete)

(***************************************************************************)
(* C27: in handle_organize the copy step and the summary are reached with  *)
(* copy set only when a target path is present; neither of the two         *)
(* 'copy without target path' failures behind the engine call ever         *)
(* happens, validation having rejected that combination before it.         *)
(***************************************************************************)
PastTheScan == cmd = "organize" /\ pc \in {"copy", "display"}

C27_PostScanBranchesUnreachable ==
    /\ failCause \notin {"copy_no_target", "display_no_target"}
    /\ (PastTheScan /\ args.copy) => IsSome(args.target_path)
    /\ copyPc # "idle" => (args.copy /\ IsSome(args.target_path))
    /\ HasEvent("summary") => (args.copy /\ IsSome(args.target_path))

\* organize has copied into its target and printed the summary
C27_Witness ==
    /\ cmd = "organize"
    /\ args.copy
    /\ copyPc = "returned"
    /\ HasEvent("summary")
    /\ result = "ok"

(***************************************************************************)
(* C28: when copy_files_to_target returns Ok for an input of at least one  *)
(* file, the returned map has exactly the keys of the input: every input   *)
(* date key is there, with an empty list when nothing was written for it   *)
(* (a malformed key, a date directory that could not be created, every     *)
(* copy failed), and no other key.                                         *)
(***************************************************************************)
CopyReturnedMap == CopyReturnedOk /\ IsSome(final_organized_images) /\ TotalFiles(organized_images) > 0

C28_ResultKeysAreInputKeys ==
    CopyReturnedMap =>
        /\ DOMAIN Unwrap(final_organized_images) = DOMAIN organized_images
        /\ \A d \in DOMAIN Unwrap(final_organized_images) :
              SuccessDests(d) = <<>> => Unwrap(final_organized_images)[d] = <<>>

=============================================================================
